---- MODULE Spec2Model ----
(***************************************************************************)
(* Fixup adjustment and application of the AVR assembler backend           *)
(* (lib/Target/AVR/MCTargetDesc/AVRAsmBackend.cpp).                        *)
(*                                                                         *)
(* A uint64_t is a function from bit positions 0..63 to {0,1}, so that     *)
(* wrap-around, logical shifts and masks are exactly those of the C++      *)
(* code.  assert and llvm_unreachable are taken as in a build with         *)
(* assertions enabled: they stop the program.                              *)
(***************************************************************************)
EXTENDS Integers, Sequences, FiniteSets, TLC

(***************************************************************************)
(* Bounds of the model.                                                    *)
(***************************************************************************)
Radius == 1
MaxDataSize == 4
MaxOffset == 1

(***************************************************************************)
(* 64-bit unsigned arithmetic.                                             *)
(***************************************************************************)
W64 == 64
Bits == 0 .. (W64 - 1)

\* int64_t -> uint64_t conversion (two's complement) of a small integer.
FromInt(n) ==
  [i \in Bits |-> IF i < 31 THEN (n \div (2^i)) % 2 ELSE IF n < 0 THEN 1 ELSE 0]

RECURSIVE SumBits(_, _, _)
SumBits(v, lo, n) ==
  IF n = 0 THEN 0 ELSE v[lo] + 2 * SumBits(v, lo + 1, n - 1)

\* The integer a uint64_t denotes when read as int64_t; meaningful when the
\* bits 31..63 are all equal.
ToInt(v) == SumBits(v, 0, 31) - v[W64 - 1] * (2^30) - v[W64 - 1] * (2^30)

\* Byte i of a uint64_t: (Value >> (i * 8)) & 0xff.
ByteOf(v, i) == IF 8 * i + 7 < W64 THEN SumBits(v, 8 * i, 8) ELSE 0

And(a, b) == [i \in Bits |-> a[i] * b[i]]
Or(a, b) == [i \in Bits |-> IF a[i] + b[i] > 0 THEN 1 ELSE 0]
Not(a) == [i \in Bits |-> 1 - a[i]]
Shl(a, k) == [i \in Bits |-> IF i >= k THEN a[i - k] ELSE 0]
Shr(a, k) == [i \in Bits |-> IF i + k < W64 THEN a[i + k] ELSE 0]

RECURSIVE AddBits(_, _, _, _)
AddBits(a, b, i, c) ==
  IF i = W64 THEN << >>
  ELSE << (a[i] + b[i] + c) % 2 >> \o AddBits(a, b, i + 1, (a[i] + b[i] + c) \div 2)

Add(a, b) == LET s == AddBits(a, b, 0, 0) IN [i \in Bits |-> s[i + 1]]
\* a * -1 modulo 2^64.
Negate(a) == Add(Not(a), FromInt(1))

\* Bitwise OR on two bytes of the data fragment.
ByteOr(x, y) == ByteOf(Or(FromInt(x), FromInt(y)), 0)

(***************************************************************************)
(* llvm/Support/MathExtras.h, ErrorHandling.h, std::to_string.             *)
(***************************************************************************)
isUIntN(N, x) == N >= 64 \/ \A i \in Bits : i >= N => x[i] = 0
isIntN(N, x) == N >= 64 \/ \A i \in Bits : i >= N - 1 => x[i] = x[W64 - 1]
minIntN(N) == -(2^(N - 1))
maxIntN(N) == 2^(N - 1) - 1
maxUIntN(N) == 2^N - 1

RECURSIVE Digits(_)
Digits(n) ==
  LET d == <<"0", "1", "2", "3", "4", "5", "6", "7", "8", "9">>
  IN IF n < 10 THEN << d[n + 1] >> ELSE Digits(n \div 10) \o << d[(n % 10) + 1] >>

to_string(n) == IF n < 0 THEN << "-" >> \o Digits(-n) ELSE Digits(n)

\* AVR::fixups::adjustBranchTarget: val >>= 1 on a uint64_t.
adjustBranchTarget(Value) == Shr(Value, 1)

\* Result of an adjustment: the new Value, or the way the program stopped.
Ok(v) == [st |-> "ok", Value |-> v, Diagnostic |-> << >>]
reportFatalError(v, Loc, Diagnostic) ==
  [st |-> "fatal", Value |-> v, Diagnostic |-> << Loc >> \o Diagnostic]
llvm_unreachable(v, Diagnostic) ==
  [st |-> "unreachable", Value |-> v, Diagnostic |-> Diagnostic]

(***************************************************************************)
(* namespace adjust                                                        *)
(***************************************************************************)
\* signed_width with the exclusive upper bound in the message.
signed_width_ExclusiveMax(Width, Value, Description, Loc, Ctx) ==
  IF ~isIntN(Width, Value)
  THEN LET Min == minIntN(Width)
           Max == maxIntN(Width) + 1
           Diagnostic == << "out of range ", Description,
                            " (expected an integer in the range " >>
                         \o to_string(Min) \o << " to " >> \o to_string(Max)
                         \o << ")" >>
       IN IF Ctx THEN reportFatalError(Value, Loc, Diagnostic)
          ELSE llvm_unreachable(Value, Diagnostic)
  ELSE Ok(Value)

signed_width(Width, Value, Description, Loc, Ctx) ==
  IF ~isIntN(Width, Value)
  THEN LET Min == minIntN(Width)
           Max == maxIntN(Width)
           Diagnostic == << "out of range ", Description,
                            " (expected an integer in the range " >>
                         \o to_string(Min) \o << " to " >> \o to_string(Max)
                         \o << ")" >>
       IN IF Ctx THEN reportFatalError(Value, Loc, Diagnostic)
          ELSE llvm_unreachable(Value, Diagnostic)
  ELSE Ok(Value)

unsigned_width(Width, Value, Description, Loc, Ctx) ==
  IF ~isUIntN(Width, Value)
  THEN LET Max == maxUIntN(Width)
           Diagnostic == << "out of range ", Description,
                            " (expected an integer in the range 0 to " >>
                         \o to_string(Max) \o << ")" >>
       IN IF Ctx THEN reportFatalError(Value, Loc, Diagnostic)
          ELSE llvm_unreachable(Value, Diagnostic)
  ELSE Ok(Value)

\* adjustBranch without the extra bit of precision.
adjustBranch_NoExtraBit(Size, Value, Loc, Ctx) ==
  LET c == unsigned_width(Size, Value, "branch target", Loc, Ctx)
  IN IF c.st # "ok" THEN c ELSE Ok(adjustBranchTarget(Value))

adjustBranch(Size, Value, Loc, Ctx) ==
  LET c == unsigned_width(Size + 1, Value, "branch target", Loc, Ctx)
  IN IF c.st # "ok" THEN c ELSE Ok(adjustBranchTarget(Value))

\* adjustRelativeBranch without Value -= 2.
adjustRelativeBranch_NoPCOffset(Size, Value, Loc, Ctx) ==
  LET c == signed_width(Size + 1, Value, "branch target", Loc, Ctx)
  IN IF c.st # "ok" THEN c ELSE Ok(adjustBranchTarget(Value))

adjustRelativeBranch(Size, Value, Loc, Ctx) ==
  LET c == signed_width(Size + 1, Value, "branch target", Loc, Ctx)
  IN IF c.st # "ok" THEN c
     ELSE Ok(adjustBranchTarget(Add(Value, FromInt(-2))))

fixup_call(Size, Value, Loc, Ctx) ==
  LET b == adjustBranch(Size, Value, Loc, Ctx)
  IN IF b.st # "ok" THEN b
     ELSE LET top == And(b.Value, FromInt(15 * (2^14)))
              middle == And(b.Value, FromInt(131071 * (2^5)))
              bottom == And(b.Value, FromInt(31))
          IN Ok(Or(Or(Shl(top, 6), Shl(middle, 3)), Shl(bottom, 0)))

fixup_7_pcrel(Size, Value, Loc, Ctx) ==
  LET b == adjustRelativeBranch(Size, Value, Loc, Ctx)
  IN IF b.st # "ok" THEN b ELSE Ok(And(b.Value, FromInt(127)))

fixup_13_pcrel(Size, Value, Loc, Ctx) ==
  LET b == adjustRelativeBranch(Size, Value, Loc, Ctx)
  IN IF b.st # "ok" THEN b ELSE Ok(And(b.Value, FromInt(4095)))

fixup_6_adiw(Value, Loc, Ctx) ==
  LET c == unsigned_width(6, Value, "immediate", Loc, Ctx)
  IN IF c.st # "ok" THEN c
     ELSE Ok(Or(Shl(And(Value, FromInt(48)), 2), And(Value, FromInt(15))))

fixup_port5(Value, Loc, Ctx) ==
  LET c == unsigned_width(5, Value, "port number", Loc, Ctx)
  IN IF c.st # "ok" THEN c ELSE Ok(Shl(And(Value, FromInt(31)), 3))

fixup_port6(Value, Loc, Ctx) ==
  LET c == unsigned_width(6, Value, "port number", Loc, Ctx)
  IN IF c.st # "ok" THEN c
     ELSE Ok(Or(Shl(And(Value, FromInt(48)), 5), And(Value, FromInt(15))))

pm(Value) == Shr(Value, 1)

\* namespace adjust::ldi
ldi_fixup(Size, Value) ==
  LET upper == And(Value, FromInt(240))
      lower == And(Value, FromInt(15))
  IN Or(Shl(upper, 4), lower)

\* neg as the one's complement.
neg_OnesComplement(Value) == Not(Value)

neg(Value) == Negate(Value)

lo8(Size, Value) == ldi_fixup(Size, And(Value, FromInt(255)))
hi8(Size, Value) == ldi_fixup(Size, Shr(And(Value, Shl(FromInt(255), 8)), 8))
hh8(Size, Value) == ldi_fixup(Size, Shr(And(Value, Shl(FromInt(255), 16)), 16))
ms8(Size, Value) == ldi_fixup(Size, Shr(And(Value, Shl(FromInt(255), 24)), 24))

(***************************************************************************)
(* The fixup kinds and AVRAsmBackend::getFixupKindInfo.                    *)
(***************************************************************************)
Infos == <<
  [Name |-> "fixup_32", TargetOffset |-> 0, TargetSize |-> 32, IsPCRel |-> FALSE],
  [Name |-> "fixup_7_pcrel", TargetOffset |-> 3, TargetSize |-> 7, IsPCRel |-> TRUE],
  [Name |-> "fixup_13_pcrel", TargetOffset |-> 0, TargetSize |-> 12, IsPCRel |-> TRUE],
  [Name |-> "fixup_16", TargetOffset |-> 0, TargetSize |-> 16, IsPCRel |-> FALSE],
  [Name |-> "fixup_16_pm", TargetOffset |-> 0, TargetSize |-> 16, IsPCRel |-> FALSE],
  [Name |-> "fixup_ldi", TargetOffset |-> 0, TargetSize |-> 8, IsPCRel |-> FALSE],
  [Name |-> "fixup_lo8_ldi", TargetOffset |-> 0, TargetSize |-> 8, IsPCRel |-> FALSE],
  [Name |-> "fixup_hi8_ldi", TargetOffset |-> 0, TargetSize |-> 8, IsPCRel |-> FALSE],
  [Name |-> "fixup_hh8_ldi", TargetOffset |-> 0, TargetSize |-> 8, IsPCRel |-> FALSE],
  [Name |-> "fixup_ms8_ldi", TargetOffset |-> 0, TargetSize |-> 8, IsPCRel |-> FALSE],
  [Name |-> "fixup_lo8_ldi_neg", TargetOffset |-> 0, TargetSize |-> 8, IsPCRel |-> FALSE],
  [Name |-> "fixup_hi8_ldi_neg", TargetOffset |-> 0, TargetSize |-> 8, IsPCRel |-> FALSE],
  [Name |-> "fixup_hh8_ldi_neg", TargetOffset |-> 0, TargetSize |-> 8, IsPCRel |-> FALSE],
  [Name |-> "fixup_ms8_ldi_neg", TargetOffset |-> 0, TargetSize |-> 8, IsPCRel |-> FALSE],
  [Name |-> "fixup_lo8_ldi_pm", TargetOffset |-> 0, TargetSize |-> 8, IsPCRel |-> FALSE],
  [Name |-> "fixup_hi8_ldi_pm", TargetOffset |-> 0, TargetSize |-> 8, IsPCRel |-> FALSE],
  [Name |-> "fixup_hh8_ldi_pm", TargetOffset |-> 0, TargetSize |-> 8, IsPCRel |-> FALSE],
  [Name |-> "fixup_lo8_ldi_pm_neg", TargetOffset |-> 0, TargetSize |-> 8, IsPCRel |-> FALSE],
  [Name |-> "fixup_hi8_ldi_pm_neg", TargetOffset |-> 0, TargetSize |-> 8, IsPCRel |-> FALSE],
  [Name |-> "fixup_hh8_ldi_pm_neg", TargetOffset |-> 0, TargetSize |-> 8, IsPCRel |-> FALSE],
  [Name |-> "fixup_call", TargetOffset |-> 0, TargetSize |-> 22, IsPCRel |-> FALSE],
  [Name |-> "fixup_6", TargetOffset |-> 0, TargetSize |-> 16, IsPCRel |-> FALSE],
  [Name |-> "fixup_6_adiw", TargetOffset |-> 0, TargetSize |-> 6, IsPCRel |-> FALSE],
  [Name |-> "fixup_lo8_ldi_gs", TargetOffset |-> 0, TargetSize |-> 8, IsPCRel |-> FALSE],
  [Name |-> "fixup_hi8_ldi_gs", TargetOffset |-> 0, TargetSize |-> 8, IsPCRel |-> FALSE],
  [Name |-> "fixup_8", TargetOffset |-> 0, TargetSize |-> 8, IsPCRel |-> FALSE],
  [Name |-> "fixup_8_lo8", TargetOffset |-> 0, TargetSize |-> 8, IsPCRel |-> FALSE],
  [Name |-> "fixup_8_hi8", TargetOffset |-> 0, TargetSize |-> 8, IsPCRel |-> FALSE],
  [Name |-> "fixup_8_hlo8", TargetOffset |-> 0, TargetSize |-> 8, IsPCRel |-> FALSE],
  [Name |-> "fixup_sym_diff", TargetOffset |-> 0, TargetSize |-> 32, IsPCRel |-> FALSE],
  [Name |-> "fixup_16_ldst", TargetOffset |-> 0, TargetSize |-> 16, IsPCRel |-> FALSE],
  [Name |-> "fixup_lds_sts_16", TargetOffset |-> 0, TargetSize |-> 16, IsPCRel |-> FALSE],
  [Name |-> "fixup_port6", TargetOffset |-> 0, TargetSize |-> 16, IsPCRel |-> FALSE],
  [Name |-> "fixup_port5", TargetOffset |-> 3, TargetSize |-> 5, IsPCRel |-> FALSE] >>

\* MCAsmBackend::getFixupKindInfo: the target-independent kinds that
\* adjustFixupValue names.
Builtins == <<
  [Name |-> "FK_Data_2", TargetOffset |-> 0, TargetSize |-> 16, IsPCRel |-> FALSE],
  [Name |-> "FK_Data_4", TargetOffset |-> 0, TargetSize |-> 32, IsPCRel |-> FALSE],
  [Name |-> "FK_Data_8", TargetOffset |-> 0, TargetSize |-> 64, IsPCRel |-> FALSE],
  [Name |-> "FK_GPRel_4", TargetOffset |-> 0, TargetSize |-> 32, IsPCRel |-> FALSE] >>

TargetKinds == {Infos[i].Name : i \in 1 .. Len(Infos)}
GenericKinds == {Builtins[i].Name : i \in 1 .. Len(Builtins)}
Kinds == TargetKinds \cup GenericKinds

getFixupKindInfo(Kind) ==
  IF Kind \in GenericKinds
  THEN Builtins[CHOOSE i \in 1 .. Len(Builtins) : Builtins[i].Name = Kind]
  ELSE Infos[CHOOSE i \in 1 .. Len(Infos) : Infos[i].Name = Kind]

(***************************************************************************)
(* AVRAsmBackend::adjustFixupValue                                         *)
(***************************************************************************)
adjustFixupValue(Kind, Value, Loc, Ctx) ==
  LET Size == getFixupKindInfo(Kind).TargetSize
  IN CASE Kind = "fixup_7_pcrel" -> fixup_7_pcrel(Size, Value, Loc, Ctx)
       [] Kind = "fixup_13_pcrel" -> fixup_13_pcrel(Size, Value, Loc, Ctx)
       [] Kind = "fixup_call" -> fixup_call(Size, Value, Loc, Ctx)
       [] Kind = "fixup_ldi" -> Ok(ldi_fixup(Size, Value))
       [] Kind \in {"fixup_lo8_ldi", "fixup_lo8_ldi_pm"} ->
            Ok(lo8(Size, IF Kind = "fixup_lo8_ldi_pm" THEN pm(Value) ELSE Value))
       [] Kind \in {"fixup_hi8_ldi", "fixup_hi8_ldi_pm"} ->
            Ok(hi8(Size, IF Kind = "fixup_hi8_ldi_pm" THEN pm(Value) ELSE Value))
       [] Kind \in {"fixup_hh8_ldi", "fixup_hh8_ldi_pm"} ->
            Ok(hh8(Size, IF Kind = "fixup_hh8_ldi_pm" THEN pm(Value) ELSE Value))
       [] Kind = "fixup_ms8_ldi" -> Ok(ms8(Size, Value))
       [] Kind \in {"fixup_lo8_ldi_neg", "fixup_lo8_ldi_pm_neg"} ->
            Ok(lo8(Size, neg(IF Kind = "fixup_lo8_ldi_pm_neg" THEN pm(Value) ELSE Value)))
       [] Kind \in {"fixup_hi8_ldi_neg", "fixup_hi8_ldi_pm_neg"} ->
            Ok(hi8(Size, neg(IF Kind = "fixup_hi8_ldi_pm_neg" THEN pm(Value) ELSE Value)))
       [] Kind \in {"fixup_hh8_ldi_neg", "fixup_hh8_ldi_pm_neg"} ->
            Ok(hh8(Size, neg(IF Kind = "fixup_hh8_ldi_pm_neg" THEN pm(Value) ELSE Value)))
       [] Kind = "fixup_ms8_ldi_neg" -> Ok(ms8(Size, neg(Value)))
       [] Kind = "fixup_16" ->
            LET c == unsigned_width(16, Value, "port number", Loc, Ctx)
            IN IF c.st # "ok" THEN c ELSE Ok(And(Value, FromInt(65535)))
       [] Kind = "fixup_6_adiw" -> fixup_6_adiw(Value, Loc, Ctx)
       [] Kind = "fixup_port5" -> fixup_port5(Value, Loc, Ctx)
       [] Kind = "fixup_port6" -> fixup_port6(Value, Loc, Ctx)
       [] Kind \in {"FK_Data_2", "FK_Data_4", "FK_Data_8"} -> Ok(Value)
       [] Kind = "FK_GPRel_4" ->
            llvm_unreachable(Value, << "don't know how to adjust this fixup" >>)
       [] OTHER -> llvm_unreachable(Value, << "unhandled fixup" >>)

(***************************************************************************)
(* AVRAsmBackend::applyFixup                                               *)
(***************************************************************************)
\* applyFixup with the bound of the assertion off by one.
applyFixup_OffByOne(Kind, Data, Offset, Value) ==
  IF Value = FromInt(0) THEN [st |-> "ok", Data |-> Data]
  ELSE LET Info == getFixupKindInfo(Kind)
           NumBits == Info.TargetSize + Info.TargetOffset
           NumBytes == (NumBits \div 8) + (IF NumBits % 8 = 0 THEN 0 ELSE 1)
           Shifted == Shl(Value, Info.TargetOffset)
           DataSize == Len(Data)
       IN IF ~(Offset + NumBytes <= DataSize + 1)
          THEN [st |-> "assert", Data |-> Data]
          ELSE [st |-> "ok",
                Data |-> [j \in 1 .. DataSize |->
                            IF j - 1 >= Offset /\ j - 1 < Offset + NumBytes
                            THEN ByteOr(Data[j], ByteOf(Shifted, j - 1 - Offset))
                            ELSE Data[j]]]

\* applyFixup storing the bytes of the value instead of OR-ing them in.
applyFixup_Assign(Kind, Data, Offset, Value) ==
  IF Value = FromInt(0) THEN [st |-> "ok", Data |-> Data]
  ELSE LET Info == getFixupKindInfo(Kind)
           NumBits == Info.TargetSize + Info.TargetOffset
           NumBytes == (NumBits \div 8) + (IF NumBits % 8 = 0 THEN 0 ELSE 1)
           Shifted == Shl(Value, Info.TargetOffset)
           DataSize == Len(Data)
       IN IF ~(Offset + NumBytes <= DataSize)
          THEN [st |-> "assert", Data |-> Data]
          ELSE [st |-> "ok",
                Data |-> [j \in 1 .. DataSize |->
                            IF j - 1 >= Offset /\ j - 1 < Offset + NumBytes
                            THEN ByteOf(Shifted, j - 1 - Offset)
                            ELSE Data[j]]]

applyFixup(Kind, Data, Offset, Value) ==
  IF Value = FromInt(0) THEN [st |-> "ok", Data |-> Data]
  ELSE LET Info == getFixupKindInfo(Kind)
           NumBits == Info.TargetSize + Info.TargetOffset
           NumBytes == (NumBits \div 8) + (IF NumBits % 8 = 0 THEN 0 ELSE 1)
           Shifted == Shl(Value, Info.TargetOffset)
           DataSize == Len(Data)
       IN IF ~(Offset + NumBytes <= DataSize)
          THEN [st |-> "assert", Data |-> Data]
          ELSE [st |-> "ok",
                Data |-> [j \in 1 .. DataSize |->
                            IF j - 1 >= Offset /\ j - 1 < Offset + NumBytes
                            THEN ByteOr(Data[j], ByteOf(Shifted, j - 1 - Offset))
                            ELSE Data[j]]]

(***************************************************************************)
(* AVRAsmBackend::processFixupValue                                        *)
(***************************************************************************)
\* processFixupValue with fixup_call missing from the deferred kinds.
processFixupValue_CallNotDeferred(Kind, isTemporary, Value, IsResolved, Loc) ==
  IF Kind \in {"fixup_7_pcrel", "fixup_13_pcrel"}
  THEN [st |-> "ok", Value |-> Value, Diagnostic |-> << >>, IsResolved |-> FALSE]
  ELSE LET v == IF isTemporary THEN Add(Value, FromInt(2)) ELSE Value
           r == adjustFixupValue(Kind, v, Loc, TRUE)
       IN [st |-> r.st, Value |-> r.Value, Diagnostic |-> r.Diagnostic,
           IsResolved |-> IsResolved]

processFixupValue(Kind, isTemporary, Value, IsResolved, Loc) ==
  IF Kind \in {"fixup_7_pcrel", "fixup_13_pcrel", "fixup_call"}
  THEN [st |-> "ok", Value |-> Value, Diagnostic |-> << >>, IsResolved |-> FALSE]
  ELSE LET v == IF isTemporary THEN Add(Value, FromInt(2)) ELSE Value
           r == adjustFixupValue(Kind, v, Loc, TRUE)
       IN [st |-> r.st, Value |-> r.Value, Diagnostic |-> r.Diagnostic,
           IsResolved |-> IsResolved]

(***************************************************************************)
(* The state: one fixup request on its way through the backend.            *)
(***************************************************************************)
VARIABLES
  Kind,        \* Fixup.getKind()
  Loc,         \* Fixup.getLoc()
  rawValue,    \* the candidate value of the request, as a signed integer
  Value,       \* uint64_t Value, as the backend has left it
  Ctx,         \* whether the adjuster was given an MCContext
  SymA,        \* Target.getSymA(): "null", "temporary" or "label"
  isTemporary, \* what getSymbol().isTemporary() returned
  resolvedIn,  \* IsResolved as the caller passed it
  IsResolved,  \* IsResolved as the backend has left it
  dataIn,      \* the fragment handed to applyFixup
  Data,        \* the fragment as applyFixup has left it
  Offset,      \* Fixup.getOffset()
  calls,       \* the backend operations called so far
  halt,        \* "no", or how the program stopped
  Diagnostic   \* the message the program stopped with

vars == << Kind, Loc, rawValue, Value, Ctx, SymA, isTemporary, resolvedIn,
           IsResolved, dataIn, Data, Offset, calls, halt, Diagnostic >>

Centers == {0, 2, 16, 32, 64, 128, 256, 4096, 4660, 65536, 524288, 4194304,
            8388608, 305419896, -64, -128, -4096}
Values == {c + d : c \in Centers, d \in (-Radius) .. Radius}
Locs == {"a.s:1"}
Fills == {0, 165}
Syms == {"null", "temporary", "label"}
DeferredKinds == {"fixup_7_pcrel", "fixup_13_pcrel", "fixup_call"}

Init ==
  /\ Kind \in Kinds
  /\ Loc \in Locs
  /\ rawValue \in Values
  /\ Value = FromInt(rawValue)
  /\ Ctx = FALSE
  /\ SymA = "null"
  /\ isTemporary = FALSE
  /\ resolvedIn = FALSE
  /\ IsResolved = FALSE
  /\ dataIn = << >>
  /\ Data = << >>
  /\ Offset = 0
  /\ calls = << >>
  /\ halt = "no"
  /\ Diagnostic = << >>

\* A direct call of adjustFixupValue, with or without a context.
AdjustFixupValue ==
  /\ calls = << >> /\ halt = "no"
  /\ \E c \in BOOLEAN :
       LET r == adjustFixupValue(Kind, Value, Loc, c)
       IN /\ Ctx' = c
          /\ Value' = r.Value
          /\ halt' = IF r.st = "ok" THEN "no" ELSE r.st
          /\ Diagnostic' = r.Diagnostic
  /\ calls' = << "adjust" >>
  /\ UNCHANGED << Kind, Loc, rawValue, SymA, isTemporary, resolvedIn,
                  IsResolved, dataIn, Data, Offset >>

\* The assembler's call of processFixupValue.  With no symbol A the default
\* branch dereferences a null pointer: the program crashes, or goes on with
\* whatever the read produced.
ProcessFixupValue ==
  /\ calls = << >> /\ halt = "no"
  /\ \E sym \in Syms, res \in BOOLEAN, t \in BOOLEAN :
       /\ (sym = "temporary" => t) /\ (sym = "label" => ~t)
       /\ (Kind \in DeferredKinds => t = (sym = "temporary"))
       /\ SymA' = sym
       /\ resolvedIn' = res
       /\ isTemporary' = t
       /\ \/ LET r == processFixupValue(Kind, t, Value, res, Loc)
             IN /\ Value' = r.Value
                /\ IsResolved' = r.IsResolved
                /\ halt' = IF r.st = "ok" THEN "no" ELSE r.st
                /\ Diagnostic' = r.Diagnostic
                /\ Ctx' = (Kind \notin DeferredKinds)
          \/ /\ sym = "null" /\ Kind \notin DeferredKinds /\ ~t
             /\ halt' = "segv"
             /\ IsResolved' = res
             /\ UNCHANGED << Value, Diagnostic, Ctx >>
  /\ calls' = << "process" >>
  /\ UNCHANGED << Kind, Loc, rawValue, dataIn, Data, Offset >>

\* The assembler's call of applyFixup on a fragment of its choice.
ApplyFixup ==
  /\ calls \in {<< >>, << "adjust" >>, << "process" >>} /\ halt = "no"
  /\ \E n \in 1 .. MaxDataSize, o \in 0 .. MaxOffset, f \in Fills :
       LET d == [j \in 1 .. n |-> f]
           r == applyFixup(Kind, d, o, Value)
       IN /\ dataIn' = d
          /\ Offset' = o
          /\ Data' = r.Data
          /\ halt' = IF r.st = "ok" THEN "no" ELSE r.st
  /\ calls' = Append(calls, "apply")
  /\ UNCHANGED << Kind, Loc, rawValue, Value, Ctx, SymA, isTemporary,
                  resolvedIn, IsResolved, Diagnostic >>

Next == AdjustFixupValue \/ ProcessFixupValue \/ ApplyFixup

Spec == Init /\ [][Next]_vars

(***************************************************************************)
(* Vocabulary of the properties.                                           *)
(***************************************************************************)
\* The adjuster has run on this request, and nothing has run after it.
AdjusterRan ==
  \/ calls = << "adjust" >>
  \/ calls = << "process" >> /\ Kind \notin DeferredKinds /\ halt # "segv"

\* The value the adjuster was handed, as an integer.
AdjusterInput == rawValue + (IF isTemporary THEN 2 ELSE 0)

Accepted == AdjusterRan /\ halt = "no"

LdiKinds ==
  {"fixup_ldi", "fixup_lo8_ldi", "fixup_hi8_ldi", "fixup_hh8_ldi", "fixup_ms8_ldi",
   "fixup_lo8_ldi_neg", "fixup_hi8_ldi_neg", "fixup_hh8_ldi_neg", "fixup_ms8_ldi_neg",
   "fixup_lo8_ldi_pm", "fixup_hi8_ldi_pm", "fixup_hh8_ldi_pm",
   "fixup_lo8_ldi_pm_neg", "fixup_hi8_ldi_pm_neg", "fixup_hh8_ldi_pm_neg"}
DataKinds == {"FK_Data_2", "FK_Data_4", "FK_Data_8"}
PCRelKinds == {"fixup_7_pcrel", "fixup_13_pcrel"}
AdjustingKinds ==
  LdiKinds \cup PCRelKinds
    \cup {"fixup_call", "fixup_16", "fixup_6_adiw", "fixup_port5", "fixup_port6"}
HandledKinds == AdjustingKinds \cup DataKinds

TableWidth(k) == getFixupKindInfo(k).TargetSize
TableOffset(k) == getFixupKindInfo(k).TargetOffset

\* 0 <= v < 2^w and -2^(w-1) <= v < 2^(w-1), for the integers of the model.
FitsUnsigned(v, w) == v >= 0 /\ (w >= 31 \/ v < 2^w)
FitsSigned(v, w) == w >= 32 \/ (-(2^(w - 1)) <= v /\ v < 2^(w - 1))

BitAt(x, b) == (x \div (2^b)) % 2

(***************************************************************************)
(* C1                                                                      *)
(***************************************************************************)
\* C1 (as claimed): for every kind adjustFixupValue handles, with W the
\* width the kind table declares, the adjustment succeeds iff 0 <= value <
\* 2^W (unsigned kinds), resp. -2^(W-1) <= value < 2^(W-1) (PC-relative kinds).
C1_TableWidthDecides ==
  (AdjusterRan /\ Kind \in HandledKinds) =>
    ((halt = "no") <=>
       IF Kind \in PCRelKinds THEN FitsSigned(AdjusterInput, TableWidth(Kind))
       ELSE FitsUnsigned(AdjusterInput, TableWidth(Kind)))

\* C1 (amended): fixup_16, fixup_6_adiw and fixup_port5 succeed iff
\* 0 <= value < 2^W for the table width W; fixup_port6 succeeds iff
\* 0 <= value < 2^6; fixup_call succeeds iff 0 <= value < 2^(W+1); the
\* PC-relative kinds succeed iff -2^W <= value < 2^W; the load-immediate
\* kinds and the raw data kinds always succeed.
C1_CheckedWidthDecides ==
  (AdjusterRan /\ Kind \in HandledKinds) =>
    ((halt = "no") <=>
       CASE Kind \in {"fixup_16", "fixup_6_adiw", "fixup_port5"} ->
              FitsUnsigned(AdjusterInput, TableWidth(Kind))
         [] Kind = "fixup_port6" -> FitsUnsigned(AdjusterInput, 6)
         [] Kind = "fixup_call" -> FitsUnsigned(AdjusterInput, TableWidth(Kind) + 1)
         [] Kind \in PCRelKinds -> FitsSigned(AdjusterInput, TableWidth(Kind) + 1)
         [] OTHER -> TRUE)

C1_Witness ==
  /\ AdjusterRan /\ halt = "no"
  /\ Kind = "fixup_call"
  /\ AdjusterInput >= 2^(TableWidth(Kind))

(***************************************************************************)
(* C2                                                                      *)
(***************************************************************************)
Applied == Len(calls) > 0 /\ calls[Len(calls)] = "apply"
SpannedBytes(k) == (TableWidth(k) + TableOffset(k) + 7) \div 8
OutOfBounds == Offset + SpannedBytes(Kind) > Len(dataIn)

\* C2 (as claimed): applyFixup faults, with the buffer unmodified, for every
\* kind, offset, buffer length and value with
\* byteOffset + spannedBytes > bufferLength.
C2_EveryOutOfBoundsFaults ==
  (Applied /\ OutOfBounds) => (halt = "assert" /\ Data = dataIn)

\* C2 (amended): for every out-of-bounds combination applyFixup faults, with
\* the buffer unmodified, when the value is not zero; when the value is zero
\* it returns normally, with the buffer unmodified.
C2_NonZeroOutOfBoundsFaults ==
  (Applied /\ OutOfBounds) =>
    /\ Data = dataIn
    /\ (halt = "assert") <=> (Value # FromInt(0))
    /\ (halt = "no") <=> (Value = FromInt(0))

C2_Witness ==
  /\ Applied /\ OutOfBounds /\ halt = "assert"
  /\ Value # FromInt(0) /\ Kind = "fixup_call" /\ Len(dataIn) = 2

(***************************************************************************)
(* C3                                                                      *)
(***************************************************************************)
\* Byte i of (v << off), for an integer v.
ShiftedByte(v, off, i) ==
  IF i = 0 THEN (v % (2^(8 - off))) * (2^off)
  ELSE IF 8 * i - off >= 31 THEN (IF v < 0 THEN 255 ELSE 0)
  ELSE (v \div (2^(8 * i - off))) % 256

\* C3: when applyFixup returns, each byte in [byteOffset, byteOffset +
\* spannedBytes) has exactly the bits it had before and the bits of byte i
\* of (value << bitOffset), and every other byte is unchanged.
C3_OnlyAddsBits ==
  (Applied /\ ~OutOfBounds /\ halt = "no") =>
    /\ Len(Data) = Len(dataIn)
    /\ \A j \in 1 .. Len(Data) :
         IF j - 1 >= Offset /\ j - 1 < Offset + SpannedBytes(Kind)
         THEN \A b \in 0 .. 7 :
                BitAt(Data[j], b) = 1 <=>
                  \/ BitAt(dataIn[j], b) = 1
                  \/ BitAt(ShiftedByte(ToInt(Value), TableOffset(Kind),
                                       j - 1 - Offset), b) = 1
         ELSE Data[j] = dataIn[j]

C3_Witness ==
  /\ Applied /\ ~OutOfBounds /\ halt = "no"
  /\ Kind = "fixup_7_pcrel" /\ calls = << "adjust", "apply" >>
  /\ Len(dataIn) = 3 /\ Offset = 1 /\ dataIn[2] = 165
  /\ Data[1] = dataIn[1] /\ Data[2] # dataIn[2] /\ Data[3] # dataIn[3]

(***************************************************************************)
(* C4                                                                      *)
(***************************************************************************)
Processed == calls = << "process" >>

\* The adjuster's result on an integer input, with the assembler's context.
AdjustOf(k, v) == adjustFixupValue(k, FromInt(v), Loc, TRUE).Value

\* C4 (as claimed): when processFixupValue returns, a fixup_7_pcrel,
\* fixup_13_pcrel or fixup_call fixup is marked unresolved and its value is
\* not adjusted; a fixup of any other kind is marked resolved and its value
\* is adjust(kind, value + 2) for a temporary symbol, adjust(kind, value)
\* otherwise.
C4_OthersEndResolved ==
  (Processed /\ halt = "no" /\ SymA # "null") =>
    IF Kind \in DeferredKinds
    THEN ~IsResolved /\ Value = FromInt(rawValue)
    ELSE /\ IsResolved
         /\ Value = AdjustOf(Kind, IF SymA = "temporary" THEN rawValue + 2
                                   ELSE rawValue)

\* C4 (amended): a fixup_7_pcrel, fixup_13_pcrel or fixup_call fixup is
\* always marked unresolved and its value is not adjusted, whatever the
\* incoming flag and symbol; for every other kind the resolved flag is left
\* as the caller passed it and, when the target has a symbol and the
\* adjustment succeeds, the value is adjust(kind, value + 2) for a temporary
\* symbol and adjust(kind, value) otherwise.
C4_OthersKeepFlag ==
  Processed =>
    IF Kind \in DeferredKinds
    THEN ~IsResolved /\ Value = FromInt(rawValue) /\ halt = "no"
    ELSE /\ IsResolved = resolvedIn
         /\ (halt = "no" /\ SymA # "null") =>
              Value = AdjustOf(Kind, IF SymA = "temporary" THEN rawValue + 2
                                     ELSE rawValue)

C4_Witness ==
  /\ Processed /\ halt = "no"
  /\ Kind = "fixup_lo8_ldi" /\ SymA = "temporary" /\ rawValue = 4660
  /\ ~resolvedIn /\ ~IsResolved
  /\ ToInt(Value) = 774

(***************************************************************************)
(* C5                                                                      *)
(***************************************************************************)
\* C5: for fixup_call and every accepted byte address, with h = value >> 1,
\* the encoded word has bits 18-21 of h at bits 22-25, bits 5-17 of h at
\* bits 8-20, bits 0-4 of h at bits 0-4, and no other bit set.
C5_CallLayout ==
  (Accepted /\ Kind = "fixup_call") =>
    LET h == AdjusterInput \div 2
    IN ToInt(Value) = (h \div (2^18)) * (2^22)
                      + ((h \div 32) % (2^13)) * (2^8)
                      + (h % 32)

(***************************************************************************)
(* C6                                                                      *)
(***************************************************************************)
FieldMask(k) == IF k = "fixup_7_pcrel" THEN 127 ELSE 4095

\* C6: for both PC-relative kinds, an accepted displacement v is adjusted
\* to ((v - 2) >> 1) masked to the field (0x7F, resp. 0xFFF); v = 2 gives 0
\* and v = 0 gives 0x7F for the 7-bit kind.
C6_RelativeBranchValue ==
  (Accepted /\ Kind \in PCRelKinds) =>
    /\ ToInt(Value) = ((AdjusterInput - 2) \div 2) % (FieldMask(Kind) + 1)
    /\ AdjusterInput = 2 => ToInt(Value) = 0
    /\ (AdjusterInput = 0 /\ Kind = "fixup_7_pcrel") => ToInt(Value) = 127

C6_Witness ==
  /\ Accepted /\ Kind = "fixup_7_pcrel" /\ AdjusterInput = 0
  /\ ToInt(Value) = 127

(***************************************************************************)
(* C7                                                                      *)
(***************************************************************************)
NegKinds ==
  {"fixup_lo8_ldi_neg", "fixup_hi8_ldi_neg", "fixup_hh8_ldi_neg", "fixup_ms8_ldi_neg"}
PmNegKinds ==
  {"fixup_lo8_ldi_pm_neg", "fixup_hi8_ldi_pm_neg", "fixup_hh8_ldi_pm_neg"}

\* The kind without the negation.
Plain(k) ==
  CASE k = "fixup_lo8_ldi_neg" -> "fixup_lo8_ldi"
    [] k = "fixup_hi8_ldi_neg" -> "fixup_hi8_ldi"
    [] k = "fixup_hh8_ldi_neg" -> "fixup_hh8_ldi"
    [] k = "fixup_ms8_ldi_neg" -> "fixup_ms8_ldi"
    [] k = "fixup_lo8_ldi_pm_neg" -> "fixup_lo8_ldi_pm"
    [] k = "fixup_hi8_ldi_pm_neg" -> "fixup_hi8_ldi_pm"
    [] k = "fixup_hh8_ldi_pm_neg" -> "fixup_hh8_ldi_pm"

\* C7 (as claimed): for every negated load-immediate kind, _pm_neg kinds
\* included, the adjusted result for V is the result of the kind without the
\* negation for -V.
C7_NegatedIsPlainOfMinus ==
  (Accepted /\ Kind \in NegKinds \cup PmNegKinds) =>
    Value = AdjustOf(Plain(Kind), -AdjusterInput)

\* C7 (amended): for lo8/hi8/hh8/ms8 _neg and every V the result is that of
\* the kind without the negation for -V; for lo8/hi8/hh8 _pm_neg this holds
\* for every even V, and for an odd V the result is that of the _pm kind for
\* -(V - 1), because the value is halved before it is negated.
C7_NegatedIsPlainOfMinusEven ==
  (Accepted /\ Kind \in NegKinds \cup PmNegKinds) =>
    IF Kind \in NegKinds \/ AdjusterInput % 2 = 0
    THEN Value = AdjustOf(Plain(Kind), -AdjusterInput)
    ELSE Value = AdjustOf(Plain(Kind), -(AdjusterInput - 1))

C7_Witness ==
  /\ Accepted /\ Kind = "fixup_hi8_ldi_pm_neg" /\ AdjusterInput = 4660
  /\ ToInt(Value) = 3846

(***************************************************************************)
(* C8                                                                      *)
(***************************************************************************)
CheckedKinds ==
  PCRelKinds \cup {"fixup_call", "fixup_16", "fixup_6_adiw", "fixup_port5",
                   "fixup_port6"}

\* The value lies in the range the kind's width check accepts.
InCheckedRange(k, v) ==
  CASE k = "fixup_7_pcrel" -> -128 <= v /\ v <= 127
    [] k = "fixup_13_pcrel" -> -4096 <= v /\ v <= 4095
    [] k = "fixup_call" -> 0 <= v /\ v <= 8388607
    [] k = "fixup_16" -> 0 <= v /\ v <= 65535
    [] k = "fixup_6_adiw" -> 0 <= v /\ v <= 63
    [] k = "fixup_port5" -> 0 <= v /\ v <= 31
    [] k = "fixup_port6" -> 0 <= v /\ v <= 63

RangeText == " (expected an integer in the range "
ExpectedMessage(k) ==
  CASE k = "fixup_7_pcrel" ->
         << "out of range ", "branch target", RangeText,
            "-", "1", "2", "8", " to ", "1", "2", "7", ")" >>
    [] k = "fixup_13_pcrel" ->
         << "out of range ", "branch target", RangeText,
            "-", "4", "0", "9", "6", " to ", "4", "0", "9", "5", ")" >>
    [] k = "fixup_call" ->
         << "out of range ", "branch target", " (expected an integer in the range 0 to ",
            "8", "3", "8", "8", "6", "0", "7", ")" >>
    [] k = "fixup_16" ->
         << "out of range ", "port number", " (expected an integer in the range 0 to ",
            "6", "5", "5", "3", "5", ")" >>
    [] k = "fixup_6_adiw" ->
         << "out of range ", "immediate", " (expected an integer in the range 0 to ",
            "6", "3", ")" >>
    [] k = "fixup_port5" ->
         << "out of range ", "port number", " (expected an integer in the range 0 to ",
            "3", "1", ")" >>
    [] k = "fixup_port6" ->
         << "out of range ", "port number", " (expected an integer in the range 0 to ",
            "6", "3", ")" >>

\* The adjuster was called on this request, whatever was called after it.
AdjusterCalled ==
  /\ calls # << >>
  /\ \/ calls[1] = "adjust"
     \/ calls[1] = "process" /\ Kind \notin DeferredKinds /\ halt # "segv"

\* C8: a failing width check ends the resolution of the fixup: no encoded
\* value is produced, no buffer byte is modified and nothing runs after it;
\* with a context the program stops with the fatal diagnostic "out of range
\* <description> (expected an integer in the range <min> to <max>)" at the
\* fixup's location, with the inclusive bounds of the checked width; with no
\* context it stops with an unrecoverable fault.
C8_FailedCheckStops ==
  (AdjusterCalled /\ Kind \in CheckedKinds
     /\ ~InCheckedRange(Kind, AdjusterInput)) =>
    /\ Len(calls) = 1
    /\ halt = (IF Ctx THEN "fatal" ELSE "unreachable")
    /\ Ctx => Diagnostic = << Loc >> \o ExpectedMessage(Kind)
    /\ Value = FromInt(AdjusterInput)
    /\ Data = << >> /\ dataIn = << >>

C8_Witness ==
  /\ AdjusterCalled /\ Kind = "fixup_7_pcrel" /\ AdjusterInput = 128
  /\ Ctx /\ halt = "fatal"
  /\ Diagnostic = << Loc >> \o ExpectedMessage("fixup_7_pcrel")

(***************************************************************************)
(* C9                                                                      *)
(***************************************************************************)
\* The shift that the documented layout of a kind still needs after the
\* adjuster: fixup_7_pcrel is adjusted to the bare field and resolves to
\* 0000 00kk kkkk k000; every other adjuster returns the layout itself.
LayoutShift(k) == IF k = "fixup_7_pcrel" THEN 3 ELSE 0

AdjustedThenApplied ==
  /\ Kind \in AdjustingKinds
  /\ \/ calls = << "adjust", "apply" >>
     \/ calls = << "process", "apply" >> /\ Kind \notin DeferredKinds
  /\ halt = "no"

\* C9: for every kind with an adjustment and every accepted value, applying
\* the adjusted value to an all-zero buffer that is large enough leaves the
\* buffer, read little-endian from the fixup offset, equal to the encoding
\* in the adjuster's documented layout: no bit is lost and no field is
\* shifted twice.
C9_PlacementLosesNoBits ==
  (AdjustedThenApplied /\ ~OutOfBounds /\ \A j \in 1 .. Len(dataIn) : dataIn[j] = 0) =>
    \A j \in 1 .. Len(Data) :
      Data[j] = IF j - 1 < Offset THEN 0
                ELSE ShiftedByte(ToInt(Value), LayoutShift(Kind), j - 1 - Offset)

(***************************************************************************)
(* C10                                                                     *)
(***************************************************************************)
FieldBits(k) == IF k = "fixup_7_pcrel" THEN 7 ELSE 12
SignExtend(f, n) == IF f >= 2^(n - 1) THEN f - 2^n ELSE f

\* C10: for both PC-relative kinds and every displacement v the signed
\* range check accepts, sign-extending the masked field (7, resp. 12 bits)
\* gives the word displacement (v - 2) / 2.
C10_FieldIsFaithful ==
  (Accepted /\ Kind \in PCRelKinds) =>
    SignExtend(ToInt(Value), FieldBits(Kind)) = (AdjusterInput - 2) \div 2

====
